---- MODULE Spec2Model ----
(***************************************************************************)
(* Government-data ingestion scripts (scripts/ingest).                     *)
(*                                                                         *)
(*   gov_ingest.py            CLI that pages a govinfo collection, fetches *)
(*                            one worker document or one congress.gov page *)
(*                            and writes NDJSON records          (Spec)    *)
(*   gov_ingest.dedupe_and_emit  called with arbitrary records (SpecDedupe)*)
(*   gov_source_ingestor.py   fetch_govinfo_bulk, fetch_congress_data and  *)
(*                            process_and_store, run as its __main__ block *)
(*                            runs them                      (SpecIngestor)*)
(*                                                                         *)
(* HTTP responses are the environment: every request nondeterministically  *)
(* fails (network error or non-2xx, raised by raise_for_status) or returns *)
(* one of a small set of bodies.                                           *)
(***************************************************************************)
EXTENDS Integers, Sequences, FiniteSets, TLC

VARIABLES
    pc,          \* position of the running program
    args,        \* parsed command line of gov_ingest.main
    catalogue,   \* the items the govinfo collection holds, in listing order
    page,        \* ingest_govinfo_collection: page
    items,       \* ingest_govinfo_collection: items of the current page
    idx,         \* ingest_govinfo_collection: position of the for loop in items
    out,         \* the records written to the output, in order
    SEEN,        \* gov_ingest._SEEN
    http,        \* number of HTTP requests issued so far
    pagecalls,   \* number of fetch_govinfo_api calls issued so far
    pagelens,    \* sizes of the pages returned so far
    docfailed,   \* listing positions of the items whose body fetch raised
    pagefailed,  \* a page/listing fetch has raised
    calls,       \* the records dedupe_and_emit was called with, in order
    bulk,        \* GovDataIngestor.fetch_govinfo_bulk: outcome
    congress,    \* GovDataIngestor.fetch_congress_data: loop state and outcome
    store        \* GovDataIngestor.process_and_store: loop state and outcome

vars == <<pc, args, catalogue, page, items, idx, out, SEEN, http, pagecalls,
          pagelens, docfailed, pagefailed, calls, bulk, congress, store>>

\* Bounds of the model.
MaxItems == 4      \* items held by the paginated collection
\* ingest_govinfo_collection fixes pagesize = 100 (gov_ingest.py line 42); the
\* model pages by a scaled-down size so that full, short and empty last pages
\* all occur within MaxItems.
pagesize == 2
MaxCalls == 3      \* dedupe_and_emit calls in one run of SpecDedupe
MaxDocs == 2       \* documents in one API response of the ingestor
MaxPages == 2      \* congress.gov result pages

\* Python's None, and `a or b` on values whose falsy members are None and ''.
None == "None"
Falsy(v) == v = None \/ v = ""
Or(a, b) == IF Falsy(a) THEN b ELSE a

-----------------------------------------------------------------------------
(* gov_ingest.py *)

\* Bodies a document URL serves: u1 is an HTML page with a <title> and a
\* date meta tag, u2 is plain text.
Body(url) == IF url = "u1" THEN "<html>u1</html>" ELSE "text:" \o url

FetchError == "<fetch-error>e</fetch-error>"

extract_metadata(html_text) ==
    IF Falsy(html_text) THEN [title |-> None, date |-> None]
    ELSE IF html_text = "<html>u1</html>"
         THEN [title |-> "Title u1", date |-> "2020-01-01"]
         ELSE [title |-> None, date |-> None]

\* emit appends one line to the output.
emit_Prepend(obj, o) == <<obj>> \o o
emit(obj, o) == Append(o, obj)

\* A listed item: its url, downloadUrl and link fields, and its title.
ItemKinds ==
    { [url |-> "u1", downloadUrl |-> None, link |-> None],
      [url |-> None, downloadUrl |-> "u2", link |-> None],
      [url |-> "",   downloadUrl |-> None, link |-> None] }

ItemTitle(i) == "item" \o ToString(i)

ItemUrl(it) == Or(Or(it.url, it.downloadUrl), it.link)

\* offset parameter of the page request
Offset(p) == (p - 1) * pagesize

\* The collection serves, for an offset, the next pagesize positions it holds.
PageAt(offset) ==
    LET last == IF offset + pagesize < Len(catalogue)
                THEN offset + pagesize ELSE Len(catalogue)
    IN  [k \in 1..(IF last > offset THEN last - offset ELSE 0) |-> offset + k]

\* The loop leaves after a page shorter than pagesize.
ShortPage_Le(its) == Len(its) <= pagesize
ShortPage(its) == Len(its) < pagesize

\* Content of the record of an item: '' without url, the body when
\* fetch_direct returns, the placeholder when it raises.
DocContent_Empty(url, ok) ==
    IF Falsy(url) THEN "" ELSE IF ok THEN Body(url) ELSE ""
DocContent(url, ok) ==
    IF Falsy(url) THEN "" ELSE IF ok THEN Body(url) ELSE FetchError

GovRecord(i, ok) ==
    LET it == catalogue[i]
        url == ItemUrl(it)
        content == DocContent(url, ok)
        meta == extract_metadata(content)
    IN  [url |-> url, title |-> Or(meta.title, ItemTitle(i)), date |-> meta.date,
         content |-> content, source |-> "govinfo"]

Sha1(s) == "sha1:" \o s

DedupeKey_ContentOnly(record) == Sha1(Or(record.content, ""))
DedupeKey(record) == Or(record.url, Sha1(Or(record.content, "")))

Sources == {"govinfo", "congress", "worker"}

Args == [source : Sources, worker_url : BOOLEAN, push_worker : BOOLEAN,
         worker_store_url : BOOLEAN]

Catalogues == UNION { [1..n -> ItemKinds] : n \in 0..MaxItems }

IdleBulk == [status |-> "idle", failed |-> FALSE, result |-> <<>>]
IdleCongress == [status |-> "idle", failed |-> FALSE, page |-> 1, results |-> <<>>]
IdleStore == [status |-> "idle", documents |-> <<>>, processed |-> <<>>,
              add_calls |-> <<>>, logged |-> <<>>]

Init ==
    /\ pc = "main"
    /\ args \in Args
    /\ catalogue \in Catalogues
    /\ args.source # "govinfo" => catalogue = <<>>
    /\ page = 1
    /\ items = <<>>
    /\ idx = 1
    /\ out = <<>>
    /\ SEEN = {}
    /\ http = 0
    /\ pagecalls = 0
    /\ pagelens = <<>>
    /\ docfailed = {}
    /\ pagefailed = FALSE
    /\ calls = <<>>
    /\ bulk = IdleBulk
    /\ congress = IdleCongress
    /\ store = IdleStore

ingestorVars == <<bulk, congress, store>>
pagerVars == <<page, items, idx, pagecalls, pagelens, docfailed, pagefailed>>

\* main, lines 116-127: open the output and dispatch on --source.
Dispatch ==
    /\ pc = "main"
    /\ pc' = CASE args.source = "govinfo" -> "page_fetch"
               [] args.source = "worker" ->
                    IF args.worker_url THEN "worker_get" ELSE "SystemExit"
               [] args.source = "congress" -> "congress_get"
    /\ UNCHANGED <<args, catalogue, out, SEEN, http, calls>>
    /\ UNCHANGED pagerVars
    /\ UNCHANGED ingestorVars

\* ingest_govinfo_collection, lines 44-48: one page request. A failing
\* request raises out of the function and out of main.
FetchPage ==
    /\ pc = "page_fetch"
    /\ http' = http + 1
    /\ pagecalls' = pagecalls + 1
    /\ \E ok \in BOOLEAN :
         IF ok
         THEN LET its == PageAt(Offset(page))
              IN  /\ items' = its
                  /\ pagelens' = Append(pagelens, Len(its))
                  /\ pc' = IF its = <<>> THEN "push_check" ELSE "item"
                  /\ UNCHANGED pagefailed
         ELSE /\ pagefailed' = TRUE
              /\ pc' = "raised"
              /\ UNCHANGED <<items, pagelens>>
    /\ idx' = 1
    /\ UNCHANGED <<args, catalogue, page, out, SEEN, docfailed, calls>>
    /\ UNCHANGED ingestorVars

\* ingest_govinfo_collection, lines 49-62: one iteration of the for loop,
\* and after the last item of the page the test that ends or continues the
\* while loop.
ProcessItem ==
    /\ pc = "item"
    /\ LET i == items[idx]
           url == ItemUrl(catalogue[i])
       IN  \E ok \in BOOLEAN :
             /\ Falsy(url) => ok
             /\ http' = IF Falsy(url) THEN http ELSE http + 1
             /\ docfailed' = IF ok THEN docfailed ELSE docfailed \cup {i}
             /\ out' = emit(GovRecord(i, ok), out)
    /\ IF idx < Len(items)
       THEN /\ idx' = idx + 1
            /\ UNCHANGED <<pc, page>>
       ELSE /\ idx' = idx
            /\ IF ShortPage(items)
               THEN pc' = "push_check" /\ UNCHANGED page
               ELSE pc' = "page_fetch" /\ page' = page + 1
    /\ UNCHANGED <<args, catalogue, items, SEEN, pagecalls, pagelens,
                   pagefailed, calls>>
    /\ UNCHANGED ingestorVars

\* What the worker endpoint answers: JSON {url, content} or raw HTML.
WorkerJson == [url : {None, "u1"}, content : {None, "", "<html>u1</html>"}]
WorkerHtml == {"", "<html>u1</html>", "text:w"}

WorkerJsonRecord(data) ==
    LET meta == extract_metadata(Or(data.content, ""))
    IN  [url |-> data.url, title |-> Or(meta.title, ""), date |-> meta.date,
         content |-> data.content, source |-> "worker"]

WorkerHtmlRecord(text) ==
    LET meta == extract_metadata(text)
    IN  [url |-> "target", title |-> Or(meta.title, ""), date |-> meta.date,
         content |-> text, source |-> "worker"]

\* ingest_worker, lines 64-80.
IngestWorker ==
    /\ pc = "worker_get"
    /\ http' = http + 1
    /\ \/ pc' = "raised" /\ UNCHANGED out
       \/ \E data \in WorkerJson :
            out' = emit(WorkerJsonRecord(data), out) /\ pc' = "push_check"
       \/ \E text \in WorkerHtml :
            out' = emit(WorkerHtmlRecord(text), out) /\ pc' = "push_check"
    /\ UNCHANGED <<args, catalogue, SEEN, calls>>
    /\ UNCHANGED pagerVars
    /\ UNCHANGED ingestorVars

\* dedupe_and_emit, lines 84-89, as the pair (new _SEEN, new output).
dedupe_and_emit(record, seen, o) ==
    LET key == DedupeKey(record)
    IN  IF key \in seen THEN <<seen, o>>
        ELSE <<seen \cup {key}, emit(record, o)>>

CongressBodies == {"", "<html>u1</html>", "text:congress"}

\* main, lines 126-130.
IngestCongress ==
    /\ pc = "congress_get"
    /\ http' = http + 1
    /\ \/ pc' = "raised" /\ UNCHANGED <<out, SEEN>>
       \/ \E content \in CongressBodies :
            LET rec == [url |-> "https://www.congress.gov/", title |-> "",
                        content |-> content, source |-> "congress"]
                r == dedupe_and_emit(rec, SEEN, out)
            IN  SEEN' = r[1] /\ out' = r[2] /\ pc' = "push_check"
    /\ UNCHANGED <<args, catalogue, calls>>
    /\ UNCHANGED pagerVars
    /\ UNCHANGED ingestorVars

\* main, lines 134-136.
PushCheck ==
    /\ pc = "push_check"
    /\ pc' = IF ~args.push_worker THEN "done"
             ELSE IF ~args.worker_store_url THEN "SystemExit" ELSE "push"
    /\ UNCHANGED <<args, catalogue, out, SEEN, http, calls>>
    /\ UNCHANGED pagerVars
    /\ UNCHANGED ingestorVars

\* main, lines 138-141: POST the NDJSON file.
Push ==
    /\ pc = "push"
    /\ http' = http + 1
    /\ pc' \in {"done", "raised"}
    /\ UNCHANGED <<args, catalogue, out, SEEN, calls>>
    /\ UNCHANGED pagerVars
    /\ UNCHANGED ingestorVars

Next ==
    \/ Dispatch
    \/ FetchPage
    \/ ProcessItem
    \/ IngestWorker
    \/ IngestCongress
    \/ PushCheck
    \/ Push

Spec == Init /\ [][Next]_vars

-----------------------------------------------------------------------------
(* gov_ingest.dedupe_and_emit called with arbitrary records *)

DedupeRecords == [url : {None, "", "u1", "sha1:c1"},
                  content : {None, "", "c1", "c2"},
                  source : {"govinfo"}]

InitDedupe ==
    /\ pc = "dedupe"
    /\ args = [source |-> "govinfo", worker_url |-> FALSE,
               push_worker |-> FALSE, worker_store_url |-> FALSE]
    /\ catalogue = <<>>
    /\ page = 1
    /\ items = <<>>
    /\ idx = 1
    /\ out = <<>>
    /\ SEEN = {}
    /\ http = 0
    /\ pagecalls = 0
    /\ pagelens = <<>>
    /\ docfailed = {}
    /\ pagefailed = FALSE
    /\ calls = <<>>
    /\ bulk = IdleBulk
    /\ congress = IdleCongress
    /\ store = IdleStore

DedupeCall ==
    /\ pc = "dedupe"
    /\ Len(calls) < MaxCalls
    /\ \E record \in DedupeRecords :
         LET r == dedupe_and_emit(record, SEEN, out)
         IN  /\ SEEN' = r[1]
             /\ out' = r[2]
             /\ calls' = Append(calls, record)
    /\ UNCHANGED <<pc, args, catalogue, http>>
    /\ UNCHANGED pagerVars
    /\ UNCHANGED ingestorVars

NextDedupe == DedupeCall

SpecDedupe == InitDedupe /\ [][NextDedupe]_vars

-----------------------------------------------------------------------------
(* gov_source_ingestor.py *)

\* Elements of an API listing: a govinfo package, a congress.gov result, and
\* a JSON value that is not an object (document.get raises AttributeError).
PackageDoc == [dict |-> TRUE, text |-> "bill text", content |-> None,
               download |-> TRUE, packageId |-> "BILLS-1"]
ResultDoc == [dict |-> TRUE, text |-> None, content |-> "",
              download |-> FALSE, packageId |-> None]
NonDictDoc == [dict |-> FALSE, text |-> None, content |-> None,
               download |-> FALSE, packageId |-> None]

Documents == {PackageDoc, ResultDoc, NonDictDoc}

DocLists == UNION { [1..n -> Documents] : n \in 0..MaxDocs }

_extract_content(document) == Or(Or(document.text, document.content), "")

_create_metadata(document) ==
    [source |-> IF document.download THEN "govinfo" ELSE "congress",
     document_id |-> document.packageId]

ProcessedDoc(document) ==
    [content |-> _extract_content(document),
     metadata |-> _create_metadata(document)]

InitIngestor ==
    /\ pc = "bulk"
    /\ args = [source |-> "govinfo", worker_url |-> FALSE,
               push_worker |-> FALSE, worker_store_url |-> FALSE]
    /\ catalogue = <<>>
    /\ page = 1
    /\ items = <<>>
    /\ idx = 1
    /\ out = <<>>
    /\ SEEN = {}
    /\ http = 0
    /\ pagecalls = 0
    /\ pagelens = <<>>
    /\ docfailed = {}
    /\ pagefailed = FALSE
    /\ calls = <<>>
    /\ bulk = IdleBulk
    /\ congress = IdleCongress
    /\ store = IdleStore

mainVars == <<args, catalogue, out, SEEN, calls>>

\* fetch_govinfo_bulk, lines 37-52: any exception is logged and [] returned.
FetchGovinfoBulk ==
    /\ pc = "bulk"
    /\ http' = http + 1
    /\ \/ bulk' = [status |-> "returned", failed |-> TRUE, result |-> <<>>]
       \/ \E packages \in DocLists :
            bulk' = [status |-> "returned", failed |-> FALSE, result |-> packages]
    /\ pc' = "congress"
    /\ UNCHANGED <<congress, store>>
    /\ UNCHANGED mainVars
    /\ UNCHANGED pagerVars

\* fetch_congress_data, lines 54-79: one iteration of the while loop; an
\* exception is logged and the results gathered so far are returned. The
\* __main__ block then calls process_and_store(bulk_data + congress_data).
FetchCongressPage ==
    /\ pc = "congress"
    /\ http' = http + 1
    /\ \/ /\ congress' = [congress EXCEPT !.status = "returned", !.failed = TRUE]
          /\ pc' = "store"
       \/ \E results \in DocLists, nextPage \in BOOLEAN :
            /\ nextPage => congress.page < MaxPages
            /\ congress' = [congress EXCEPT
                              !.results = @ \o results,
                              !.page = IF nextPage THEN @ + 1 ELSE @,
                              !.status = IF nextPage THEN @ ELSE "returned"]
            /\ pc' = IF nextPage THEN "congress" ELSE "store"
    /\ store' = IF pc' = "store"
                THEN [store EXCEPT !.status = "running",
                                   !.documents = bulk.result \o congress'.results]
                ELSE store
    /\ UNCHANGED bulk
    /\ UNCHANGED mainVars
    /\ UNCHANGED pagerVars

\* process_and_store, lines 84-88: one iteration of the for loop. Nothing
\* catches what _extract_content or _create_metadata raises.
ProcessDoc ==
    /\ pc = "store"
    /\ Len(store.processed) < Len(store.documents)
    /\ LET doc == store.documents[Len(store.processed) + 1]
       IN  IF doc.dict
           THEN /\ store' = [store EXCEPT !.processed = Append(@, ProcessedDoc(doc))]
                /\ UNCHANGED pc
           ELSE /\ store' = [store EXCEPT !.status = "raised"]
                /\ pc' = "raised"
    /\ UNCHANGED <<http, bulk, congress>>
    /\ UNCHANGED mainVars
    /\ UNCHANGED pagerVars

\* process_and_store, lines 90-92.
StoreDocs ==
    /\ pc = "store"
    /\ Len(store.processed) = Len(store.documents)
    /\ store' = IF store.processed # <<>>
                THEN [store EXCEPT
                        !.status = "returned",
                        !.add_calls = Append(@, store.processed),
                        !.logged = Append(@, <<"Stored", Len(store.processed)>>)]
                ELSE [store EXCEPT !.status = "returned"]
    /\ pc' = "done"
    /\ UNCHANGED <<http, bulk, congress>>
    /\ UNCHANGED mainVars
    /\ UNCHANGED pagerVars

NextIngestor ==
    \/ FetchGovinfoBulk
    \/ FetchCongressPage
    \/ ProcessDoc
    \/ StoreDocs

SpecIngestor == InitIngestor /\ [][NextIngestor]_vars

-----------------------------------------------------------------------------
(* Properties *)

\* The key the specification derives from a record: the url when non-empty,
\* else the hash of the content.
KeyOf(r) ==
    IF r.url # None /\ r.url # "" THEN r.url
    ELSE Sha1(IF r.content = None THEN "" ELSE r.content)

\* ingest_govinfo_collection has returned normally to main.
GovReturned ==
    /\ args.source = "govinfo"
    /\ pc \in {"push_check", "push", "done", "SystemExit"}

N == Len(catalogue)

CeilDiv(a, b) == (a + b - 1) \div b

\* C1 as stated: after a run over a collection of N items the pager has
\* yielded N items and issued exactly ceil(N / pagesize) page calls.
C1_CeilPageCalls ==
    GovReturned => Len(out) = N /\ pagecalls = CeilDiv(N, pagesize)

\* C1 amended: the pager yields exactly N items and issues exactly
\* floor(N / pagesize) + 1 page calls (that is ceil(N / pagesize) unless N is
\* a multiple of pagesize, when one more, empty, page is fetched); every page
\* before the last is full and the loop stops on the first page that is
\* empty or shorter than pagesize.
C1_PageCalls ==
    /\ \A k \in 1..(Len(pagelens) - 1) : pagelens[k] = pagesize
    /\ GovReturned =>
         /\ Len(out) = N
         /\ pagecalls = (N \div pagesize) + 1
         /\ pagecalls = Len(pagelens)
         /\ pagelens[Len(pagelens)] < pagesize

C1_Witness ==
    /\ GovReturned
    /\ N = 2 * pagesize
    /\ pagecalls = 3
    /\ Len(out) = N

\* C2 as stated: no two records written in one run share a DedupKey.
C2_NoSharedKey ==
    \A i, j \in 1..Len(out) : i # j => KeyOf(out[i]) # KeyOf(out[j])

\* C3: dedupe_and_emit emits a record iff its key (url when non-empty, else
\* the hash of content) was not seen earlier in the run: the output is the
\* calls whose key occurs for the first time, in call order, so that the same
\* non-empty url twice gives one emission whatever the contents, two empty
\* urls with different content give two and with identical content one.
C3_EmitIffKeyUnseen ==
    pc = "dedupe" =>
        LET firsts == { i \in 1..Len(calls) :
                          \A j \in 1..(i - 1) : KeyOf(calls[j]) # KeyOf(calls[i]) }
        IN  /\ Len(out) = Cardinality(firsts)
            /\ \A i \in firsts :
                 out[Cardinality({ j \in firsts : j <= i })] = calls[i]
            /\ SEEN = { KeyOf(calls[i]) : i \in 1..Len(calls) }
            /\ Len(calls) = 2 =>
                 LET a == calls[1]
                     b == calls[2]
                     nourl(r) == r.url = None \/ r.url = ""
                     text(r) == IF r.content = None THEN "" ELSE r.content
                 IN  /\ (~nourl(a) /\ a.url = b.url) => Len(out) = 1
                     /\ (nourl(a) /\ nourl(b) /\ text(a) # text(b)) => Len(out) = 2
                     /\ (nourl(a) /\ nourl(b) /\ text(a) = text(b)) => Len(out) = 1

C3_Witness ==
    /\ pc = "dedupe"
    /\ Len(calls) = 3
    /\ calls[1].url = "u1" /\ calls[2].url = "u1"
    /\ calls[1].content # calls[2].content
    /\ calls[3].url = "" /\ calls[3].content = "c2"
    /\ Len(out) = 2

\* C4 as stated: when a listing fetch of fetch_govinfo_bulk or
\* fetch_congress_data has failed, the operation does not return normally.
C4_FetchFailureSurfaced ==
    /\ bulk.failed => bulk.status # "returned"
    /\ congress.failed => congress.status # "returned"

\* What the record of listing position i holds when its body was fetched.
FetchedContent(i) ==
    LET it == catalogue[i]
        u == IF it.url # None /\ it.url # "" THEN it.url
             ELSE IF it.downloadUrl # None /\ it.downloadUrl # "" THEN it.downloadUrl
             ELSE it.link
    IN  IF u = None \/ u = "" THEN "" ELSE Body(u)

\* C5: in ingest_govinfo_collection an item whose body fetch fails is still
\* written, as the one record at its position, with the fetch-error
\* placeholder as content; the records of the other items are what they are
\* without the failure, and the run does not abort for it: unless a page
\* fetch fails, a record is written for every item of every page (the only
\* other exception of the run is a failed push, after the last record).
C5_DocFailureIsolated ==
    args.source = "govinfo" =>
        /\ Len(out) <= N
        /\ \A i \in docfailed : i <= Len(out) /\ out[i].content = FetchError
        /\ \A i \in 1..Len(out) :
             i \notin docfailed => out[i].content = FetchedContent(i)
        /\ (pc = "raised" /\ ~pagefailed) => Len(out) = N
        /\ GovReturned => Len(out) = N

C5_Witness ==
    /\ GovReturned
    /\ N = MaxItems
    /\ 1 \in docfailed
    /\ out[1].content = FetchError
    /\ Len(out) = N
    /\ N \notin docfailed

\* Number of documents of the batch that are no JSON objects.
RECURSIVE BadCount(_)
BadCount(docs) ==
    IF docs = <<>> THEN 0
    ELSE (IF docs[1].dict THEN 0 ELSE 1) + BadCount(Tail(docs))

StoreFinished == pc \in {"done", "raised"} /\ store.status # "idle"

\* C6 as stated: when extraction raises for k of the n documents given to
\* process_and_store, the other n - k are handed to add_documents and a
\* skipped count of k is reported.
C6_PartialFailureIsolated ==
    StoreFinished =>
        LET n == Len(store.documents)
            k == BadCount(store.documents)
        IN  k > 0 =>
              /\ n - k > 0 => /\ Len(store.add_calls) = 1
                              /\ Len(store.add_calls[1]) = n - k
              /\ \E m \in 1..Len(store.logged) : store.logged[m] = <<"Skipped", k>>

\* C7 as stated: process_and_store calls add_documents at most once, exactly
\* once for a non-empty list, with one processed entry per input document in
\* input order, and not at all for the empty list.
C7_BulkAddOnceIffNonEmpty ==
    /\ Len(store.add_calls) <= 1
    /\ \A m \in 1..Len(store.add_calls) : store.add_calls[m] # <<>>
    /\ StoreFinished =>
         IF store.documents = <<>> THEN store.add_calls = <<>>
         ELSE /\ Len(store.add_calls) = 1
              /\ Len(store.add_calls[1]) = Len(store.documents)
              /\ \A m \in 1..Len(store.documents) :
                   store.add_calls[1][m].metadata.document_id
                     = store.documents[m].packageId

\* C8 as stated: every written record has a non-empty source tag and a
\* content that is a string, never absent.
C8_RecordWellFormed ==
    \A i \in 1..Len(out) :
        /\ out[i].source \in Sources
        /\ out[i].content # None

\* C9: the records written by ingest_govinfo_collection are those of the
\* listed items in listing order, page after page, and every item of a page
\* has been written before the next page call is issued.
C9_OutputInPaginationOrder ==
    args.source = "govinfo" =>
        /\ \A i \in 1..Len(out) :
             /\ out[i].source = "govinfo"
             /\ out[i].url = (IF i \in 1..N /\ catalogue[i].url = "u1" THEN "u1"
                              ELSE IF i \in 1..N /\ catalogue[i].downloadUrl = "u2"
                                   THEN "u2" ELSE None)
             /\ out[i].title \in {ItemTitle(i), "Title u1"}
             /\ out[i].title = "Title u1" => out[i].content = "<html>u1</html>"
        /\ pc = "page_fetch" => Len(out) = (page - 1) * pagesize
        /\ pc = "item" => Len(out) = (page - 1) * pagesize + idx - 1
        /\ pc = "page_fetch" => Len(out) = pagecalls * pagesize

C9_Witness ==
    /\ args.source = "govinfo"
    /\ pc = "page_fetch"
    /\ page = 2
    /\ Len(out) = pagesize
    /\ out[1].title = ItemTitle(1)
    /\ out[2].title = ItemTitle(2)
    /\ out[1].url # out[2].url

\* C10 as stated: when main exits for a missing --worker-url or a missing
\* --worker-store-url, no HTTP request has been issued in the run.
C10_ConfigErrorBeforeFetch ==
    pc = "SystemExit" => http = 0

====
